---------------------------- MODULE Spec2Model ----------------------------
(***************************************************************************)
(* Movement-and-collision core of the first-person demo (src/src/main.cpp).*)
(*                                                                         *)
(* Numbers are fixed point.  Lengths are in 1/100 of a world unit,         *)
(* velocities in 1/100 unit per second, frame times in 1/100 second,       *)
(* angles in whole degrees, the mouse sensitivity in 1/100 degree per      *)
(* pixel and direction vectors in 1/1000.  A float product or quotient     *)
(* is rounded to the nearest representable value (Rnd).                    *)
(***************************************************************************)
EXTENDS Integers, Sequences, FiniteSets, TLC

VARIABLES
    player,            \* struct Player
    camera,            \* Camera3D: position and target
    colliders,         \* std::vector<CollisionBox>, in list order
    settings,          \* GameSettings: mouseSensitivity, moveSpeed, windowMode
    showSettingsMenu,  \* main(): bool showSettingsMenu
    input,             \* the inputs sampled by the last frame
    perfStats,         \* struct PerformanceStats
    window             \* the window and the cursor, with the statics
                       \* appliedWindowMode and windowModeDropdownOpen

vars ==
    <<player, camera, colliders, settings, showSettingsMenu, input, perfStats,
      window>>

----------------------------------------------------------------------------
(* Arithmetic *)

Abs(a) == IF a < 0 THEN -a ELSE a

\* a / b (b > 0) rounded to the nearest integer, halves away from zero
Rnd(a, b) == IF a >= 0 THEN (2 * a + b) \div (2 * b)
                       ELSE -((2 * (-a) + b) \div (2 * b))

RECURSIVE SqrtSearch(_, _, _)
SqrtSearch(n, lo, hi) ==
    IF lo >= hi THEN lo
    ELSE LET mid == (lo + hi + 1) \div 2
         IN  IF mid * mid <= n THEN SqrtSearch(n, mid, hi)
                               ELSE SqrtSearch(n, lo, mid - 1)

\* sqrtf, to the nearest integer
Sqrt(n) ==
    LET r == SqrtSearch(n, 0, 8191)
    IN  IF n - r * r > r THEN r + 1 ELSE r

\* sinf(DEG2RAD * d) * 1000 for d = 0 .. 90
SinTable ==
    << 0, 17, 35, 52, 70, 87, 105, 122, 139, 156, 174, 191, 208,
       225, 242, 259, 276, 292, 309, 326, 342, 358, 375, 391, 407, 423,
       438, 454, 469, 485, 500, 515, 530, 545, 559, 574, 588, 602, 616,
       629, 643, 656, 669, 682, 695, 707, 719, 731, 743, 755, 766, 777,
       788, 799, 809, 819, 829, 839, 848, 857, 866, 875, 883, 891, 899,
       906, 914, 921, 927, 934, 940, 946, 951, 956, 961, 966, 970, 974,
       978, 982, 985, 988, 990, 993, 995, 996, 998, 999, 999, 1000, 1000 >>

SinDeg(d) ==
    LET m == d % 360
    IN  IF m <= 90 THEN SinTable[m + 1]
        ELSE IF m <= 180 THEN SinTable[180 - m + 1]
        ELSE IF m <= 270 THEN -SinTable[m - 180 + 1]
        ELSE -SinTable[360 - m + 1]

CosDeg(d) == SinDeg(d + 90)

----------------------------------------------------------------------------
(* raymath vectors *)

Vec(x, y, z) == [x |-> x, y |-> y, z |-> z]

Vector3Add(a, b) == Vec(a.x + b.x, a.y + b.y, a.z + b.z)

Vector3Subtract(a, b) == Vec(a.x - b.x, a.y - b.y, a.z - b.z)

Vector3Length(v) == Sqrt(v.x * v.x + v.y * v.y + v.z * v.z)

\* a direction vector (1/1000) scaled to unit length; the zero vector is kept
Vector3Normalize(v) ==
    LET len == Vector3Length(v)
    IN  IF len = 0 THEN v
        ELSE Vec(Rnd(v.x * 1000, len), Rnd(v.y * 1000, len), Rnd(v.z * 1000, len))

\* Vector3CrossProduct(v, {0, 1, 0})
CrossWithUp(v) == Vec(-v.z, 0, v.x)

\* Vector3Scale of a direction vector (1/1000) by a length
Vector3Scale(v, s) == Vec(Rnd(v.x * s, 1000), Rnd(v.y * s, 1000), Rnd(v.z * s, 1000))

----------------------------------------------------------------------------
(* Physics constants *)

GRAVITY == 2000

JUMP_FORCE == 800

GROUND_LEVEL == 0

PITCH_LIMIT == 89

----------------------------------------------------------------------------
(* Collision boxes *)

Box(px, py, pz, sx, sy, sz) == [position |-> Vec(px, py, pz), size |-> Vec(sx, sy, sz)]

GetBoxBounds(box) ==
    [min |-> Vec(box.position.x - Rnd(box.size.x, 2),
                 box.position.y - Rnd(box.size.y, 2),
                 box.position.z - Rnd(box.size.z, 2)),
     max |-> Vec(box.position.x + Rnd(box.size.x, 2),
                 box.position.y + Rnd(box.size.y, 2),
                 box.position.z + Rnd(box.size.z, 2))]

\* the footprint test shared by the horizontal collision and the grounding scan
FootprintOverlap(pos, radius, bounds) ==
    /\ pos.x + radius > bounds.min.x
    /\ pos.x - radius < bounds.max.x
    /\ pos.z + radius > bounds.min.z
    /\ pos.z - radius < bounds.max.z

\* ShouldApplyHorizontalCollision without the test for passing under the box
ShouldApplyHorizontalCollisionNoHeadTest(playerPos, radius, height, box) ==
    LET boxBounds == GetBoxBounds(box)
        feetY     == playerPos.y - height
    IN  IF ~FootprintOverlap(playerPos, radius, boxBounds) THEN FALSE
        ELSE IF feetY >= boxBounds.max.y - 10 THEN FALSE
        ELSE TRUE

\* ShouldApplyHorizontalCollision without the test for standing on the box
ShouldApplyHorizontalCollisionNoTopTest(playerPos, radius, height, box) ==
    LET boxBounds == GetBoxBounds(box)
    IN  IF ~FootprintOverlap(playerPos, radius, boxBounds) THEN FALSE
        ELSE IF playerPos.y < boxBounds.min.y THEN FALSE
        ELSE TRUE

ShouldApplyHorizontalCollision(playerPos, radius, height, box) ==
    LET boxBounds == GetBoxBounds(box)
        feetY     == playerPos.y - height
    IN  IF ~FootprintOverlap(playerPos, radius, boxBounds) THEN FALSE
        ELSE IF feetY >= boxBounds.max.y - 10 THEN FALSE
        ELSE IF playerPos.y < boxBounds.min.y THEN FALSE
        ELSE TRUE

\* ResolveCollision that pushes along both axes
ResolveCollisionBothAxes(playerPos, radius, height, box) ==
    LET boxBounds   == GetBoxBounds(box)
        overlapX1   == (playerPos.x + radius) - boxBounds.min.x
        overlapX2   == boxBounds.max.x - (playerPos.x - radius)
        overlapZ1   == (playerPos.z + radius) - boxBounds.min.z
        overlapZ2   == boxBounds.max.z - (playerPos.z - radius)
        minOverlapX == IF overlapX1 < overlapX2 THEN -overlapX1 ELSE overlapX2
        minOverlapZ == IF overlapZ1 < overlapZ2 THEN -overlapZ1 ELSE overlapZ2
    IN  [playerPos EXCEPT !.x = @ + minOverlapX, !.z = @ + minOverlapZ]

\* ResolveCollision that pushes along X also when the two axes tie
ResolveCollisionTieOnX(playerPos, radius, height, box) ==
    LET boxBounds   == GetBoxBounds(box)
        overlapX1   == (playerPos.x + radius) - boxBounds.min.x
        overlapX2   == boxBounds.max.x - (playerPos.x - radius)
        overlapZ1   == (playerPos.z + radius) - boxBounds.min.z
        overlapZ2   == boxBounds.max.z - (playerPos.z - radius)
        minOverlapX == IF overlapX1 < overlapX2 THEN -overlapX1 ELSE overlapX2
        minOverlapZ == IF overlapZ1 < overlapZ2 THEN -overlapZ1 ELSE overlapZ2
    IN  IF Abs(minOverlapX) <= Abs(minOverlapZ)
        THEN [playerPos EXCEPT !.x = @ + minOverlapX]
        ELSE [playerPos EXCEPT !.z = @ + minOverlapZ]

ResolveCollision(playerPos, radius, height, box) ==
    LET boxBounds   == GetBoxBounds(box)
        overlapX1   == (playerPos.x + radius) - boxBounds.min.x
        overlapX2   == boxBounds.max.x - (playerPos.x - radius)
        overlapZ1   == (playerPos.z + radius) - boxBounds.min.z
        overlapZ2   == boxBounds.max.z - (playerPos.z - radius)
        minOverlapX == IF overlapX1 < overlapX2 THEN -overlapX1 ELSE overlapX2
        minOverlapZ == IF overlapZ1 < overlapZ2 THEN -overlapZ1 ELSE overlapZ2
    IN  IF Abs(minOverlapX) < Abs(minOverlapZ)
        THEN [playerPos EXCEPT !.x = @ + minOverlapX]
        ELSE [playerPos EXCEPT !.z = @ + minOverlapZ]

\* the loop over the colliders taken from the end of the list
RECURSIVE ResolveHorizontalLastFirst(_, _, _, _, _)
ResolveHorizontalLastFirst(newPos, radius, height, cols, i) ==
    LET k == Len(cols) + 1 - i
    IN  IF i > Len(cols) THEN newPos
        ELSE IF ShouldApplyHorizontalCollision(newPos, radius, height, cols[k])
             THEN ResolveHorizontalLastFirst(
                      ResolveCollision(newPos, radius, height, cols[k]),
                      radius, height, cols, i + 1)
             ELSE ResolveHorizontalLastFirst(newPos, radius, height, cols, i + 1)

\* the loop over the colliders, from list index i on
RECURSIVE ResolveHorizontal(_, _, _, _, _)
ResolveHorizontal(newPos, radius, height, cols, i) ==
    IF i > Len(cols) THEN newPos
    ELSE IF ShouldApplyHorizontalCollision(newPos, radius, height, cols[i])
         THEN ResolveHorizontal(ResolveCollision(newPos, radius, height, cols[i]),
                                radius, height, cols, i + 1)
         ELSE ResolveHorizontal(newPos, radius, height, cols, i + 1)

\* whether box i counts as ground for a player at newPos moving at velY
BoxIsGround(newPos, radius, height, velY, box) ==
    LET bounds == GetBoxBounds(box)
        feetY  == newPos.y - height
    IN  /\ FootprintOverlap(newPos, radius, bounds)
        /\ feetY <= bounds.max.y + 5
        /\ feetY >= bounds.max.y - 50
        /\ velY <= 1

\* GroundScan that takes the top of the last box that counts as ground
RECURSIVE GroundScanLastWins(_, _, _, _, _, _, _)
GroundScanLastWins(g, newPos, radius, height, velY, cols, i) ==
    IF i > Len(cols) THEN g
    ELSE IF BoxIsGround(newPos, radius, height, velY, cols[i])
         THEN GroundScanLastWins([foundGround |-> TRUE,
                                  groundY |-> GetBoxBounds(cols[i]).max.y],
                                 newPos, radius, height, velY, cols, i + 1)
         ELSE GroundScanLastWins(g, newPos, radius, height, velY, cols, i + 1)

\* the loop over the colliders of the grounding scan, from list index i on;
\* g is the pair foundGround, groundY so far
RECURSIVE GroundScan(_, _, _, _, _, _, _)
GroundScan(g, newPos, radius, height, velY, cols, i) ==
    IF i > Len(cols) THEN g
    ELSE IF BoxIsGround(newPos, radius, height, velY, cols[i])
         THEN LET top == GetBoxBounds(cols[i]).max.y
              IN  IF top > g.groundY
                  THEN GroundScan([foundGround |-> TRUE, groundY |-> top],
                                  newPos, radius, height, velY, cols, i + 1)
                  ELSE GroundScan([foundGround |-> TRUE, groundY |-> g.groundY],
                                  newPos, radius, height, velY, cols, i + 1)
         ELSE GroundScan(g, newPos, radius, height, velY, cols, i + 1)

\* the ground plane test that looks no deeper than the box test does
PlaneIsGroundBand(newPos, height) ==
    /\ newPos.y - height <= GROUND_LEVEL + 5
    /\ newPos.y - height >= GROUND_LEVEL - 50

\* the ground plane test without its tolerance
PlaneIsGroundNoTolerance(newPos, height) == newPos.y - height <= GROUND_LEVEL

\* the ground plane test that starts the scan
PlaneIsGround(newPos, height) == newPos.y - height <= GROUND_LEVEL + 5

----------------------------------------------------------------------------
(* Look *)

\* UpdateCameraLook with the lower clamp of the pitch left out
UpdateCameraLookUpperClampOnly(p, mouseSensitivity, inp) ==
    LET yaw1   == p.yaw + Rnd(inp.mdx * mouseSensitivity, 100)
        pitch1 == p.pitch - Rnd(inp.mdy * mouseSensitivity, 100)
        pitch2 == IF pitch1 > PITCH_LIMIT THEN PITCH_LIMIT ELSE pitch1
    IN  [p EXCEPT !.yaw = yaw1, !.pitch = pitch2]

UpdateCameraLook(p, mouseSensitivity, inp) ==
    LET yaw1   == p.yaw + Rnd(inp.mdx * mouseSensitivity, 100)
        pitch1 == p.pitch - Rnd(inp.mdy * mouseSensitivity, 100)
        pitch2 == IF pitch1 > PITCH_LIMIT THEN PITCH_LIMIT ELSE pitch1
        pitch3 == IF pitch2 < -PITCH_LIMIT THEN -PITCH_LIMIT ELSE pitch2
    IN  [p EXCEPT !.yaw = yaw1, !.pitch = pitch3]

GetForwardDirection(p) ==
    Vector3Normalize(Vec(Rnd(CosDeg(p.yaw) * CosDeg(p.pitch), 1000),
                         SinDeg(p.pitch),
                         Rnd(SinDeg(p.yaw) * CosDeg(p.pitch), 1000)))

GetFlatForwardDirection(p) ==
    Vector3Normalize(Vec(CosDeg(p.yaw), 0, SinDeg(p.yaw)))

\* the sum of the held keys' directions, as both update functions build it
KeyDirection(inp, forward, right, up, vertical) ==
    LET zero == Vec(0, 0, 0)
        m1 == IF inp.w THEN Vector3Add(zero, forward) ELSE zero
        m2 == IF inp.s THEN Vector3Subtract(m1, forward) ELSE m1
        m3 == IF inp.a THEN Vector3Subtract(m2, right) ELSE m2
        m4 == IF inp.d THEN Vector3Add(m3, right) ELSE m3
        m5 == IF vertical /\ inp.space # "up" THEN Vector3Add(m4, up) ELSE m4
        m6 == IF vertical /\ inp.shift THEN Vector3Subtract(m5, up) ELSE m5
    IN  m6

----------------------------------------------------------------------------
(* Noclip mode *)

\* ResetMotion that zeroes the horizontal velocity only
ResetMotionKeepsFall(p) ==
    [p EXCEPT !.velocity.x = 0, !.velocity.z = 0, !.isGrounded = FALSE]

\* ResetMotion that leaves isGrounded as it was
ResetMotionKeepsGrounded(p) == [p EXCEPT !.velocity = Vec(0, 0, 0)]

\* noclip has no physics: the last statements of UpdateNoclipMode
ResetMotion(p) == [p EXCEPT !.velocity = Vec(0, 0, 0), !.isGrounded = FALSE]

\* UpdateNoclipMode that keeps the feet on or above the ground plane
UpdateNoclipModeClamped(p0, moveSpeed, mouseSensitivity, inp) ==
    LET p            == UpdateCameraLook(p0, mouseSensitivity, inp)
        forward      == GetForwardDirection(p)
        right        == Vector3Normalize(CrossWithUp(forward))
        up           == Vec(0, 1000, 0)
        moveDir      == KeyDirection(inp, forward, right, up, TRUE)
        currentSpeed == IF inp.ctrl THEN Rnd(moveSpeed * 5, 2) ELSE moveSpeed
        step         == IF Vector3Length(moveDir) > 0
                        THEN Vector3Scale(Vector3Normalize(moveDir),
                                          Rnd(currentSpeed * inp.dt, 100))
                        ELSE moveDir
        newPos       == Vector3Add(p.position, step)
    IN  ResetMotion([p EXCEPT !.position =
                        IF newPos.y < GROUND_LEVEL + p.height
                        THEN [newPos EXCEPT !.y = GROUND_LEVEL + p.height]
                        ELSE newPos])

UpdateNoclipMode(p0, moveSpeed, mouseSensitivity, inp) ==
    LET p            == UpdateCameraLook(p0, mouseSensitivity, inp)
        forward      == GetForwardDirection(p)
        right        == Vector3Normalize(CrossWithUp(forward))
        up           == Vec(0, 1000, 0)
        moveDir      == KeyDirection(inp, forward, right, up, TRUE)
        currentSpeed == IF inp.ctrl THEN Rnd(moveSpeed * 5, 2) ELSE moveSpeed
        step         == IF Vector3Length(moveDir) > 0
                        THEN Vector3Scale(Vector3Normalize(moveDir),
                                          Rnd(currentSpeed * inp.dt, 100))
                        ELSE moveDir
    IN  ResetMotion([p EXCEPT !.position = Vector3Add(p.position, step)])

----------------------------------------------------------------------------
(* Walking mode *)

\* WalkVelocity that does not normalize the sum of the key directions
WalkVelocityUnnormalized(p, moveSpeed, inp) ==
    LET forward      == GetFlatForwardDirection(p)
        right        == Vector3Normalize(CrossWithUp(forward))
        moveDir      == KeyDirection(inp, forward, right, Vec(0, 0, 0), FALSE)
        currentSpeed == IF inp.ctrl THEN moveSpeed * 2 ELSE moveSpeed
    IN  [p EXCEPT !.velocity.x = Rnd(moveDir.x * currentSpeed, 1000),
                  !.velocity.z = Rnd(moveDir.z * currentSpeed, 1000)]

\* horizontal velocity from the held keys
WalkVelocity(p, moveSpeed, inp) ==
    LET forward      == GetFlatForwardDirection(p)
        right        == Vector3Normalize(CrossWithUp(forward))
        moveDir0     == KeyDirection(inp, forward, right, Vec(0, 0, 0), FALSE)
        currentSpeed == IF inp.ctrl THEN moveSpeed * 2 ELSE moveSpeed
        moveDir      == IF Vector3Length(moveDir0) > 0
                        THEN Vector3Normalize(moveDir0) ELSE moveDir0
    IN  [p EXCEPT !.velocity.x = Rnd(moveDir.x * currentSpeed, 1000),
                  !.velocity.z = Rnd(moveDir.z * currentSpeed, 1000)]

\* ApplyGravity that never pulls
ApplyGravityNever(p, dt) == p

\* ApplyGravity that does not look at isGrounded
ApplyGravityAlways(p, dt) == [p EXCEPT !.velocity.y = @ - Rnd(GRAVITY * dt, 100)]

ApplyGravity(p, dt) ==
    IF ~p.isGrounded
    THEN [p EXCEPT !.velocity.y = @ - Rnd(GRAVITY * dt, 100)]
    ELSE p

\* ApplyJump that also jumps off the air
ApplyJumpInAir(p, inp) ==
    IF inp.space = "pressed"
    THEN [p EXCEPT !.velocity.y = JUMP_FORCE, !.isGrounded = FALSE]
    ELSE p

\* ApplyJump that crouches for the jump: the impulse comes with a lower height
ApplyJumpCrouching(p, inp) ==
    IF inp.space = "pressed" /\ p.isGrounded
    THEN [p EXCEPT !.velocity.y = JUMP_FORCE, !.isGrounded = FALSE,
                   !.height = @ - 10]
    ELSE p

ApplyJump(p, inp) ==
    IF inp.space = "pressed" /\ p.isGrounded
    THEN [p EXCEPT !.velocity.y = JUMP_FORCE, !.isGrounded = FALSE]
    ELSE p

\* the candidate position after the horizontal step, before any push-out
HorizontalStep(p, dt) ==
    [p.position EXCEPT !.x = @ + Rnd(p.velocity.x * dt, 100),
                       !.z = @ + Rnd(p.velocity.z * dt, 100)]

\* the candidate position after the push-outs of the obstacles in list order
HorizontalMove(p, dt, cols) ==
    ResolveHorizontal(HorizontalStep(p, dt), p.radius, p.height, cols, 1)

VerticalMove(newPos, p, dt) ==
    [newPos EXCEPT !.y = @ + Rnd(p.velocity.y * dt, 100)]

\* foundGround and groundY for the candidate position
FindGround(newPos, p, cols) ==
    GroundScan([foundGround |-> PlaneIsGround(newPos, p.height),
                groundY |-> GROUND_LEVEL],
               newPos, p.radius, p.height, p.velocity.y, cols, 1)

\* ApplyGround that lands without moving the feet onto the ground
ApplyGroundNoSnap(newPos, p, g) ==
    IF g.foundGround /\ p.velocity.y <= 1
    THEN [p EXCEPT !.position = newPos, !.velocity.y = 0, !.isGrounded = TRUE]
    ELSE [p EXCEPT !.position = newPos, !.isGrounded = FALSE]

\* ApplyGround that snaps to found ground whatever the vertical velocity
ApplyGroundAnySpeed(newPos, p, g) ==
    IF g.foundGround
    THEN [p EXCEPT !.position   = [newPos EXCEPT !.y = g.groundY + p.height],
                   !.velocity.y = 0,
                   !.isGrounded = TRUE]
    ELSE [p EXCEPT !.position = newPos, !.isGrounded = FALSE]

\* ApplyGround that lands without stopping the fall
ApplyGroundKeepsSpeed(newPos, p, g) ==
    IF g.foundGround /\ p.velocity.y <= 1
    THEN [p EXCEPT !.position   = [newPos EXCEPT !.y = g.groundY + p.height],
                   !.isGrounded = TRUE]
    ELSE [p EXCEPT !.position = newPos, !.isGrounded = FALSE]

ApplyGround(newPos, p, g) ==
    IF g.foundGround /\ p.velocity.y <= 1
    THEN [p EXCEPT !.position   = [newPos EXCEPT !.y = g.groundY + p.height],
                   !.velocity.y = 0,
                   !.isGrounded = TRUE]
    ELSE [p EXCEPT !.position = newPos, !.isGrounded = FALSE]

\* the one element of a singleton set
The(S) == CHOOSE x \in S : TRUE

\* The steps of UpdateWalkingMode in the order of the code.  Each step maps
\* the (one-element) set of results of the step before it.
Looked(p0, mouseSensitivity, inp) == {UpdateCameraLook(p0, mouseSensitivity, inp)}

Moved(S, moveSpeed, inp) == {WalkVelocity(p, moveSpeed, inp) : p \in S}

Weighed(S, inp) == {ApplyGravity(p, inp.dt) : p \in S}

Jumped(S, inp) == {ApplyJump(p, inp) : p \in S}

Pushed(S, cols, inp) ==
    {[p |-> p, newPos |-> HorizontalMove(p, inp.dt, cols)] : p \in S}

Lifted(S, inp) ==
    {[p |-> r.p, newPos |-> VerticalMove(r.newPos, r.p, inp.dt)] : r \in S}

Grounded(S, cols) ==
    {ApplyGround(r.newPos, r.p, FindGround(r.newPos, r.p, cols)) : r \in S}

\* UpdateWalkingMode with the vertical step taken before the push-outs
UpdateWalkingModeLiftFirst(p0, moveSpeed, mouseSensitivity, cols, inp) ==
    The(UNION {{ApplyGround(m, p, FindGround(m, p, cols)) :
                   m \in {ResolveHorizontal(
                              VerticalMove(HorizontalStep(p, inp.dt), p, inp.dt),
                              p.radius, p.height, cols, 1)}} :
               p \in Jumped(Weighed(Moved(
                         Looked(p0, mouseSensitivity, inp),
                         moveSpeed, inp), inp), inp)})

UpdateWalkingMode(p0, moveSpeed, mouseSensitivity, cols, inp) ==
    The(Grounded(Lifted(Pushed(Jumped(Weighed(Moved(
        Looked(p0, mouseSensitivity, inp),
        moveSpeed, inp), inp), inp), cols, inp), inp), cols))

----------------------------------------------------------------------------
(* Performance statistics: frame times in milliseconds, rates in frames *)
(* per second                                                           *)

HISTORY_SIZE == 120

RECURSIVE SumOf(_, _)
SumOf(h, i) == IF i > Len(h) THEN 0 ELSE h[i] + SumOf(h, i + 1)

\* the loop that starts from 9999 and keeps the smallest entry
MinOf(h) ==
    LET S == {9999} \cup {h[i] : i \in 1..Len(h)}
    IN  CHOOSE m \in S : \A n \in S : m <= n

\* the loop that starts from 0 and keeps the largest entry
MaxOf(h) ==
    LET S == {0} \cup {h[i] : i \in 1..Len(h)}
    IN  CHOOSE m \in S : \A n \in S : n <= m

\* 1000 / ms, or 0 for a frame time of 0
RateOf(ms) == IF ms > 0 THEN Rnd(1000, ms) ELSE 0

\* PushFrameTime that already drops an entry when the deque is full
PushFrameTimeEarly(h, ms) ==
    IF Len(Append(h, ms)) >= HISTORY_SIZE THEN Tail(Append(h, ms))
    ELSE Append(h, ms)

\* push_back, then pop_front once the deque is longer than HISTORY_SIZE
PushFrameTime(h, ms) ==
    IF Len(Append(h, ms)) > HISTORY_SIZE THEN Tail(Append(h, ms))
    ELSE Append(h, ms)

\* the statistics computed from the history; the history is never empty here
FrameStatistics(st, h) ==
    [st EXCEPT !.frameTimeHistory = h,
               !.avgFrameTime = Rnd(SumOf(h, 1), Len(h)),
               !.minFrameTime = MinOf(h),
               !.maxFrameTime = MaxOf(h),
               !.avgFPS = RateOf(Rnd(SumOf(h, 1), Len(h))),
               !.minFPS = RateOf(MaxOf(h)),
               !.maxFPS = RateOf(MinOf(h))]

\* PerformanceStats::Update for a frame time of dt
StatsUpdate(st, dt) ==
    FrameStatistics(
        [st EXCEPT !.currentFrameTime = dt * 10,
                   !.currentFPS = IF dt > 0 THEN Rnd(100, dt) ELSE 0,
                   !.frameCount = @ + 1,
                   !.totalTime = @ + dt],
        PushFrameTime(st.frameTimeHistory, dt * 10))

\* PerformanceStats perfStats = {}
InitialStats ==
    [frameTimeHistory |-> << >>,
     currentFPS |-> 0, avgFPS |-> 0, minFPS |-> 0, maxFPS |-> 0,
     currentFrameTime |-> 0, avgFrameTime |-> 0,
     minFrameTime |-> 0, maxFrameTime |-> 0,
     frameCount |-> 0, totalTime |-> 0]

----------------------------------------------------------------------------
(* Camera *)

\* UpdateCameraFromPlayer that turns the camera without moving it
UpdateCameraFromPlayerTargetOnly(cam, p) ==
    [cam EXCEPT !.target = Vector3Add(p.position,
                                      Vector3Scale(GetForwardDirection(p), 100))]

UpdateCameraFromPlayer(cam, p) ==
    [cam EXCEPT !.position = p.position,
                !.target   = Vector3Add(p.position,
                                        Vector3Scale(GetForwardDirection(p), 100))]

----------------------------------------------------------------------------
(* Inputs of a frame *)

\* no key held, no mouse motion, no slider dragged; polled is set once the
\* frame's inputs have been sampled and cleared when the frame has used them
Idle ==
    [polled |-> FALSE, dt |-> 0, mdx |-> 0, mdy |-> 0,
     w |-> FALSE, s |-> FALSE, a |-> FALSE, d |-> FALSE,
     space |-> "up", shift |-> FALSE, ctrl |-> FALSE,
     v |-> FALSE, esc |-> FALSE, resume |-> FALSE,
     sensDrag |-> 0, speedDrag |-> 0,
     f11 |-> FALSE, tab |-> FALSE, dropClick |-> FALSE, dropItem |-> -1]

Keys(w, s, a, d) == [w |-> w, s |-> s, a |-> a, d |-> d]

NoKeys == Keys(FALSE, FALSE, FALSE, FALSE)

KeyW == Keys(TRUE, FALSE, FALSE, FALSE)

KeyS == Keys(FALSE, TRUE, FALSE, FALSE)

KeyA == Keys(FALSE, FALSE, TRUE, FALSE)

KeyD == Keys(FALSE, FALSE, FALSE, TRUE)

Mouse(dx, dy) == [mdx |-> dx, mdy |-> dy]

\* the inputs of a frame of play; space is "up", "pressed" (went down this
\* frame) or "held"
PlayInput(dt, m, k, space, shift, ctrl, v) ==
    [Idle EXCEPT !.dt = dt, !.mdx = m.mdx, !.mdy = m.mdy,
                 !.w = k.w, !.s = k.s, !.a = k.a, !.d = k.d,
                 !.space = space, !.shift = shift, !.ctrl = ctrl, !.v = v]

\* the inputs of a frame in the menu: a drag of 0 leaves the slider alone
MenuInput(dt, resume, sens, speed) ==
    [Idle EXCEPT !.dt = dt, !.resume = resume,
                 !.sensDrag = sens, !.speedDrag = speed]

\* the inputs of a frame spent on the window: F11, Tab, Escape and a click on
\* the window-mode dropdown, which picks item dropItem when it lands on one
\* (-1: it lands on the box itself or outside the list)
WindowInput(f11, tab, esc, dropClick, dropItem) ==
    [Idle EXCEPT !.f11 = f11, !.tab = tab, !.esc = esc,
                 !.dropClick = dropClick, !.dropItem = dropItem]

----------------------------------------------------------------------------
(* Window mode *)

WINDOW_MODE_WINDOWED == 0

WINDOW_MODE_BORDERLESS == 1

WINDOW_MODE_EXCLUSIVE == 2

\* the window as InitWindow and DisableCursor leave it, nothing applied yet
InitialWindow ==
    [appliedWindowMode      |-> WINDOW_MODE_WINDOWED,
     windowModeDropdownOpen |-> FALSE,
     applyCalls             |-> 0,
     fullscreen             |-> FALSE,
     undecorated            |-> FALSE,
     topmost                |-> FALSE,
     resizable              |-> TRUE,
     cursorHidden           |-> TRUE]

\* the window states ApplyWindowMode leaves; applyCalls counts its calls
ApplyWindowMode(win, mode) ==
    [win EXCEPT !.fullscreen  = (mode = WINDOW_MODE_EXCLUSIVE),
                !.undecorated = (mode = WINDOW_MODE_BORDERLESS),
                !.topmost     = (mode = WINDOW_MODE_BORDERLESS),
                !.resizable   = (mode # WINDOW_MODE_BORDERLESS
                                 /\ mode # WINDOW_MODE_EXCLUSIVE),
                !.applyCalls  = @ + 1]

\* F11 switches between windowed and borderless
ToggleWindowMode(st, inp) ==
    IF inp.f11
    THEN [st EXCEPT !.windowMode = IF @ = WINDOW_MODE_WINDOWED
                                   THEN WINDOW_MODE_BORDERLESS
                                   ELSE WINDOW_MODE_WINDOWED]
    ELSE st

\* LatchWindowMode that only notes the mode, leaving the window as it is
LatchWindowModeNoApply(win, st) ==
    [win EXCEPT !.appliedWindowMode = st.windowMode]

\* the latch: the mode is applied when it differs from the one last applied
LatchWindowMode(win, st) ==
    IF st.windowMode # win.appliedWindowMode
    THEN [ApplyWindowMode(win, st.windowMode)
             EXCEPT !.appliedWindowMode = st.windowMode]
    ELSE win

----------------------------------------------------------------------------
(* One pass of the game loop *)

\* an Escape key that opens and closes the menu from the next frame on
MenuAfterEscapeNextFrame(inp) == showSettingsMenu

\* the Escape key toggles the settings menu before the game update
MenuAfterEscape(inp) ==
    IF inp.esc THEN ~showSettingsMenu ELSE showSettingsMenu

\* the V key toggles noclip; leaving noclip resets the vertical velocity
ToggleNoclip(p, inp) ==
    IF inp.v
    THEN IF p.noclipMode
         THEN [p EXCEPT !.noclipMode = FALSE, !.velocity.y = 0]
         ELSE [p EXCEPT !.noclipMode = TRUE]
    ELSE p

\* the update of the player by mode
UpdatePlayer(p, inp) ==
    IF p.noclipMode
    THEN UpdateNoclipMode(p, Rnd(settings.moveSpeed * 3, 2),
                          settings.mouseSensitivity, inp)
    ELSE UpdateWalkingMode(p, settings.moveSpeed,
                           settings.mouseSensitivity, colliders, inp)

\* Escape shows the cursor with the menu and hides it again without
EscapeCursor(win, inp) ==
    IF inp.esc THEN [win EXCEPT !.cursorHidden = ~MenuAfterEscape(inp)] ELSE win

\* Tab, in a frame of play, shows or hides the cursor
TabCursor(win, inp) ==
    IF inp.tab THEN [win EXCEPT !.cursorHidden = ~@] ELSE win

\* the settings panel drawn while the menu is open: its sliders, Resume,
\* which takes clicks only while the dropdown is closed, and the dropdown
DrawSettingsMenu(st, win, inp) ==
    /\ settings' =
           [st EXCEPT
               !.mouseSensitivity = IF inp.sensDrag # 0 THEN inp.sensDrag ELSE @,
               !.moveSpeed        = IF inp.speedDrag # 0 THEN inp.speedDrag ELSE @,
               !.windowMode       = IF /\ inp.dropClick
                                       /\ win.windowModeDropdownOpen
                                       /\ inp.dropItem >= 0
                                    THEN inp.dropItem ELSE @]
    /\ showSettingsMenu' = ~(inp.resume /\ ~win.windowModeDropdownOpen)
    /\ window' =
           [win EXCEPT
               !.cursorHidden = IF inp.resume /\ ~win.windowModeDropdownOpen
                                THEN TRUE ELSE @,
               !.windowModeDropdownOpen = IF inp.dropClick THEN ~@ ELSE @]

\* one iteration of the while loop of main() on the sampled inputs
Frame ==
    /\ input.polled
    /\ \E st \in {ToggleWindowMode(settings, input)} :
       \E win \in {EscapeCursor(LatchWindowMode(window, st), input)} :
          IF MenuAfterEscape(input)
          THEN /\ UNCHANGED <<player, camera>>
               /\ DrawSettingsMenu(st, win, input)
          ELSE \E p \in {UpdatePlayer(ToggleNoclip(player, input), input)} :
                   /\ player' = p
                   /\ camera' = UpdateCameraFromPlayer(camera, p)
                   /\ showSettingsMenu' = FALSE
                   /\ settings' = st
                   /\ window' = TabCursor(win, input)
    /\ input' = Idle
    /\ UNCHANGED colliders


----------------------------------------------------------------------------
(* Bounds of the explored region *)

\* lowest and highest eye height explored
MinY == 75

MaxY == 400

\* how far the player strays from the start of a scenario, per scenario
MainReach == 70

LookReach == 360

ApproachReach == 350

StrafeReach == 70

PushReach == 140

CubeReach == 175

\* the part of the world a scenario explores: x, z and yaw within a distance
\* of a centre
Region(cx, cz, cyaw, rx, rz, ryaw) ==
    [cx |-> cx, cz |-> cz, cyaw |-> cyaw, rx |-> rx, rz |-> rz, ryaw |-> ryaw]

InBounds(p, R) ==
    /\ Abs(p.position.x - R.cx) <= R.rx
    /\ Abs(p.position.z - R.cz) <= R.rz
    /\ Abs(p.yaw - R.cyaw) <= R.ryaw
    /\ p.position.y >= MinY
    /\ p.position.y <= MaxY

----------------------------------------------------------------------------
(* Actions *)

\* the input layer samples the frame time, the mouse and the keys
PollInput(inp) ==
    /\ ~input.polled
    /\ input' = [inp EXCEPT !.polled = TRUE]
    /\ UNCHANGED <<player, camera, colliders, settings, showSettingsMenu,
                   perfStats, window>>

\* a frame spent in the settings menu: the game is not updated
PausedFrame ==
    /\ input.polled
    /\ MenuAfterEscape(input)
    /\ Frame
    /\ UNCHANGED perfStats

\* the frame on the sampled inputs updates the game, in walking mode
Walks ==
    /\ input.polled
    /\ ~MenuAfterEscape(input)
    /\ ~ToggleNoclip(player, input).noclipMode

\* the frame on the sampled inputs updates the game, in noclip mode
Flies ==
    /\ input.polled
    /\ ~MenuAfterEscape(input)
    /\ ToggleNoclip(player, input).noclipMode

\* a frame that runs UpdateWalkingMode
WalkingFrame(R) ==
    /\ Walks
    /\ Frame
    /\ InBounds(player', R)
    /\ UNCHANGED perfStats

\* a frame that runs UpdateNoclipMode
NoclipFrame(R) ==
    /\ Flies
    /\ Frame
    /\ InBounds(player', R)
    /\ UNCHANGED perfStats

----------------------------------------------------------------------------
(* The scene of main() *)

\* pillar k = 0 .. 35 of the double loop over i, j = -5, -3 .. 5
Pillar(k) ==
    LET i      == -5 + 2 * (k \div 6)
        j      == -5 + 2 * (k % 6)
        height == 100 * (1 + (Abs(i + j) % 3))
    IN  Box(i * 300, Rnd(height, 2), j * 300, 50, height, 50)

CenterCube == Box(0, 100, 0, 200, 200, 200)

MainScene == <<CenterCube>> \o [k \in 1..36 |-> Pillar(k - 1)]

InitialPlayer ==
    [position   |-> Vec(0, 180, 1000),
     velocity   |-> Vec(0, 0, 0),
     yaw        |-> -90,
     pitch      |-> 0,
     height     |-> 180,
     radius     |-> 30,
     isGrounded |-> FALSE,
     noclipMode |-> FALSE]

InitialSettings ==
    [mouseSensitivity |-> 10, moveSpeed |-> 700,
     windowMode |-> WINDOW_MODE_WINDOWED]

\* the state main() enters its loop with, for a scene and a player
Start(p, cols) ==
    /\ player = p
    /\ camera = [position |-> p.position, target |-> Vec(0, 180, 0)]
    /\ colliders = cols
    /\ settings = InitialSettings
    /\ showSettingsMenu = FALSE
    /\ input = Idle
    /\ perfStats = InitialStats
    /\ window = InitialWindow

----------------------------------------------------------------------------
(* The game as main() starts it: walking, jumping, flying, the menu *)

Init == Start(InitialPlayer, MainScene)

MainRegion == Region(0, 1000, -90, 0, MainReach, 0)

MainInputs ==
    {PlayInput(dt, Mouse(0, 0), NoKeys, space, FALSE, FALSE, FALSE) :
        dt \in {0, 10}, space \in {"up", "pressed"}}
    \cup {PlayInput(10, Mouse(0, 0), k, "up", FALSE, FALSE, FALSE) :
        k \in {KeyW, KeyS}}
    \cup {PlayInput(10, Mouse(0, 0), NoKeys, "held", FALSE, FALSE, FALSE),
          PlayInput(10, Mouse(0, 0), NoKeys, "up", TRUE, FALSE, FALSE),
          PlayInput(10, Mouse(0, 0), NoKeys, "up", FALSE, FALSE, TRUE),
          PlayInput(10, Mouse(0, 0), NoKeys, "pressed", FALSE, FALSE, TRUE)}
    \cup {[Idle EXCEPT !.esc = TRUE]}
    \cup {MenuInput(10, resume, 0, 0) : resume \in BOOLEAN}

Next ==
    \/ \E inp \in MainInputs : PollInput(inp)
    \/ PausedFrame
    \/ WalkingFrame(MainRegion)
    \/ NoclipFrame(MainRegion)

Spec == Init /\ [][Next]_vars

----------------------------------------------------------------------------
(* Looking around in the scene of main(): no time passes, only the mouse, *)
(* the mode key and the sensitivity slider are used                       *)

LookRegion == Region(0, 1000, -90, 0, 0, LookReach)

LookInputs ==
    {PlayInput(0, m, NoKeys, "up", FALSE, FALSE, FALSE) :
        m \in {Mouse(900, 0), Mouse(-900, 0), Mouse(0, 600), Mouse(0, -600)}}
    \cup {PlayInput(0, Mouse(0, 0), NoKeys, "up", FALSE, FALSE, TRUE)}
    \cup {[Idle EXCEPT !.esc = TRUE]}
    \cup {MenuInput(0, resume, sens, 0) :
        resume \in BOOLEAN, sens \in {0, 10, 50}}

NextLook ==
    \/ \E inp \in LookInputs : PollInput(inp)
    \/ PausedFrame
    \/ WalkingFrame(LookRegion)
    \/ NoclipFrame(LookRegion)

SpecLook == Init /\ [][NextLook]_vars

----------------------------------------------------------------------------
(* Free fall: an empty scene, the player released in the air with no key *)
(* held, as after leaving noclip above the plane                         *)

FallHeights == {20, 85, 220}

InitFall ==
    \E h \in FallHeights :
        Start([InitialPlayer EXCEPT !.position.y = @ + h], << >>)

FallRegion == Region(0, 1000, -90, 0, 0, 0)

FallInputs ==
    {PlayInput(dt, Mouse(0, 0), NoKeys, "up", FALSE, FALSE, FALSE) :
        dt \in {0, 2, 5, 10}}

NextFall ==
    \/ \E inp \in FallInputs : PollInput(inp)
    \/ WalkingFrame(FallRegion)

SpecFall == InitFall /\ [][NextFall]_vars

----------------------------------------------------------------------------
(* Dropping: the centre cube alone, the player released in the air above  *)
(* it, over its edge, inside it or clear of it, no key held, every frame  *)
(* taking some time.  Every frame that is due is eventually run.          *)

DropReach == 130

DropPlaces == {0, 120, 260}

DropHeights == {20, 85, 168, 220}

DropScene == <<CenterCube>>

InitDrop ==
    \E x \in DropPlaces, h \in DropHeights :
        Start([InitialPlayer EXCEPT !.position = Vec(x, 180 + h, 0)], DropScene)

DropRegion == Region(130, 0, -90, DropReach, DropReach, 0)

DropInputs ==
    {PlayInput(dt, Mouse(0, 0), NoKeys, "up", FALSE, FALSE, FALSE) :
        dt \in {1, 5, 10}}

NextDrop ==
    \/ \E inp \in DropInputs : PollInput(inp)
    \/ WalkingFrame(DropRegion)

\* the loop runs on: the inputs of the next frame are sampled, and a frame
\* whose inputs are sampled is run to its end
FrameStarts == \E inp \in DropInputs : PollInput(inp)

FrameEnds == input.polled /\ input' = Idle

SpecDrop ==
    InitDrop /\ [][NextDrop]_vars /\ WF_input(FrameStarts) /\ WF_input(FrameEnds)

----------------------------------------------------------------------------
(* Plunging: the scene of main(), the player released in the air above    *)
(* the one-metre pillar at (-15, 15), as after a noclip flight, no key    *)
(* held, with frames of 0, 0.1 and 0.2 seconds                            *)

PlungeReach == 60

PlungePlaces == {-1500, -1520, -1460}

PlungeHeights == {168, 220}

InitPlunge ==
    \E x \in PlungePlaces, h \in PlungeHeights :
        Start([InitialPlayer EXCEPT !.position = Vec(x, 180 + h, 1500)], MainScene)

PlungeRegion == Region(-1500, 1500, -90, PlungeReach, PlungeReach, 0)

PlungeInputs ==
    {PlayInput(dt, Mouse(0, 0), NoKeys, "up", FALSE, FALSE, FALSE) :
        dt \in {0, 10, 20}}

NextPlunge ==
    \/ \E inp \in PlungeInputs : PollInput(inp)
    \/ WalkingFrame(PlungeRegion)

SpecPlunge == InitPlunge /\ [][NextPlunge]_vars

----------------------------------------------------------------------------
(* Approaching the centre cube, alone in the scene, from x = +5 along -x, *)
(* walking or sprinting, with frames of several lengths                   *)

ApproachScene == <<CenterCube>>

ApproachPlayer ==
    [InitialPlayer EXCEPT !.position = Vec(500, 180, 0), !.yaw = 180]

InitApproach == Start(ApproachPlayer, ApproachScene)

ApproachRegion == Region(200, 0, 180, ApproachReach, StrafeReach, 0)

ApproachInputs ==
    {PlayInput(dt, Mouse(0, 0), KeyW, "up", FALSE, ctrl, FALSE) :
        dt \in {5, 10}, ctrl \in BOOLEAN}
    \cup {PlayInput(5, Mouse(0, 0), k, "up", FALSE, FALSE, FALSE) :
        k \in {KeyA, KeyD}}

NextApproach ==
    \/ \E inp \in ApproachInputs : PollInput(inp)
    \/ WalkingFrame(ApproachRegion)

SpecApproach == InitApproach /\ [][NextApproach]_vars

----------------------------------------------------------------------------
(* Climbing: the centre cube with two low steps behind it, the higher one *)
(* first in the list.  The player walks up to the cube, jumps onto it,    *)
(* crosses it and drops onto the steps.                                   *)

HighStep == Box(-170, 20, 0, 100, 40, 200)

LowStep == Box(-150, 5, 0, 100, 10, 200)

CubeScene == <<CenterCube, HighStep, LowStep>>

CubePlayer ==
    [InitialPlayer EXCEPT !.position = Vec(200, 180, 0), !.yaw = 180]

InitCube == Start(CubePlayer, CubeScene)

CubeRegion == Region(25, 0, 180, CubeReach, 0, 90)

CubeInputs ==
    {PlayInput(10, Mouse(0, 0), k, space, FALSE, FALSE, FALSE) :
        k \in {NoKeys, KeyW}, space \in {"up", "pressed"}}
    \cup {PlayInput(10, Mouse(0, 0), KeyS, "up", FALSE, FALSE, FALSE),
          PlayInput(5, Mouse(0, 0), NoKeys, "up", FALSE, FALSE, FALSE),
          PlayInput(0, Mouse(900, 0), KeyW, "up", FALSE, FALSE, FALSE)}

NextCube ==
    \/ \E inp \in CubeInputs : PollInput(inp)
    \/ WalkingFrame(CubeRegion)

SpecCube == InitCube /\ [][NextCube]_vars

----------------------------------------------------------------------------
(* Flying: the centre cube alone, the player in front of it facing it.    *)
(* The player switches between the modes and flies forward, back and     *)
(* down, through the cube and below the plane.                            *)

GhostReach == 210

GhostScene == <<CenterCube>>

GhostPlayer ==
    [InitialPlayer EXCEPT !.position = Vec(210, 180, 0), !.yaw = 180]

InitGhost == Start(GhostPlayer, GhostScene)

GhostRegion == Region(105, 0, 180, GhostReach, 0, 0)

GhostInputs ==
    {PlayInput(10, Mouse(0, 0), k, "up", FALSE, FALSE, FALSE) :
        k \in {NoKeys, KeyW, KeyS}}
    \cup {PlayInput(10, Mouse(0, 0), NoKeys, space, TRUE, FALSE, FALSE) :
             space \in {"up", "held"}}
    \cup {PlayInput(10, Mouse(0, 0), KeyW, "up", FALSE, TRUE, FALSE),
          PlayInput(0, Mouse(0, 0), NoKeys, "up", FALSE, FALSE, TRUE)}

NextGhost ==
    \/ \E inp \in GhostInputs : PollInput(inp)
    \/ WalkingFrame(GhostRegion)
    \/ NoclipFrame(GhostRegion)

SpecGhost == InitGhost /\ [][NextGhost]_vars

----------------------------------------------------------------------------
(* Roaming: the centre cube alone, the player against its face.  The      *)
(* player walks, jumps, steps onto the cube from the top of a jump and    *)
(* switches between the modes, on the ground, on the cube and in the air. *)

RoamReach == 140

RoamScene == <<CenterCube>>

RoamPlayer ==
    [InitialPlayer EXCEPT !.position = Vec(130, 180, 0), !.yaw = 180]

InitRoam == Start(RoamPlayer, RoamScene)

RoamRegion == Region(130, 0, 180, RoamReach, 0, 0)

RoamInputs ==
    {PlayInput(10, Mouse(0, 0), k, "up", FALSE, FALSE, FALSE) :
        k \in {NoKeys, KeyW, KeyS}}
    \cup {PlayInput(10, Mouse(0, 0), NoKeys, "pressed", FALSE, FALSE, FALSE),
          PlayInput(0, Mouse(0, 0), NoKeys, "up", FALSE, FALSE, TRUE)}

NextRoam ==
    \/ \E inp \in RoamInputs : PollInput(inp)
    \/ WalkingFrame(RoamRegion)
    \/ NoclipFrame(RoamRegion)

SpecRoam == InitRoam /\ [][NextRoam]_vars

----------------------------------------------------------------------------
(* Pushing: a block with a low slab in front of it and a lintel overhead. *)
(* The player walks, sprints and strafes around them, never jumping, so   *)
(* the block pushes it out, the slab carries it and the lintel lets it    *)
(* pass underneath.                                                       *)

Block == Box(0, 100, 0, 80, 200, 200)

Lintel == Box(175, 250, 130, 70, 100, 70)

Slab == Box(125, 5, 60, 70, 10, 70)

PushScene == <<Block, Lintel, Slab>>

PushPlayer ==
    [InitialPlayer EXCEPT !.position = Vec(200, 180, 160), !.yaw = 180]

InitPush == Start(PushPlayer, PushScene)

PushRegion == Region(70, 95, 180, PushReach, StrafeReach, 90)

KeysHeld(k, also) ==
    [w |-> k.w \/ also.w, s |-> k.s \/ also.s,
     a |-> k.a \/ also.a, d |-> k.d \/ also.d]

PushInputs ==
    {PlayInput(5, Mouse(0, 0), k, "up", FALSE, FALSE, FALSE) :
        k \in {NoKeys, KeyW, KeyS, KeyA, KeyD,
                KeysHeld(KeyW, KeyS), KeysHeld(KeyA, KeyD)}}
    \cup {PlayInput(dt, Mouse(0, 0), KeyW, "up", FALSE, ctrl, FALSE) :
        dt \in {5, 10}, ctrl \in BOOLEAN}
    \cup {PlayInput(0, Mouse(0, 0), KeysHeld(KeyW, KeyA), "up", FALSE, ctrl, FALSE) :
        ctrl \in BOOLEAN}
    \cup {PlayInput(0, Mouse(900, 0), KeyW, "up", FALSE, FALSE, FALSE)}

NextPush ==
    \/ \E inp \in PushInputs : PollInput(inp)
    \/ WalkingFrame(PushRegion)

SpecPush == InitPush /\ [][NextPush]_vars

----------------------------------------------------------------------------
(* The statistics of a session: the player stands in the scene of main() *)
(* while frames go by.  The first frames take either of two times, the   *)
(* later ones follow a cycle.  The game scenarios above do not record    *)
(* the statistics, which feed the debug overlay only.                    *)

\* number of frames of a session
MaxFrames == 125

\* number of frames at the start whose time is not fixed
Irregular == 3

FrameTimes(n) == IF n < Irregular THEN {1, 3} ELSE {1 + (n % 4)}

StatsInputs ==
    {PlayInput(dt, Mouse(0, 0), NoKeys, "up", FALSE, FALSE, FALSE) :
        dt \in FrameTimes(perfStats.frameCount)}

\* one iteration of the loop of main(), statistics included
StatsFrame ==
    /\ input.polled
    /\ perfStats.frameCount < MaxFrames
    /\ perfStats' = StatsUpdate(perfStats, input.dt)
    /\ Frame

NextStats ==
    \/ \E inp \in StatsInputs : PollInput(inp)
    \/ StatsFrame

SpecStats == Init /\ [][NextStats]_vars

----------------------------------------------------------------------------
(* The window: in the scene of main(), with no time passing, the player   *)
(* presses F11, Tab, Escape, V and the jump key and works the window-mode *)
(* dropdown and the Resume button of the settings menu.                   *)

\* how many calls of ApplyWindowMode are followed
MaxApplies == 3

WindowInputs ==
    {WindowInput(f11, tab, esc, FALSE, -1) :
        f11 \in BOOLEAN, tab \in BOOLEAN, esc \in BOOLEAN}
    \cup {WindowInput(FALSE, FALSE, FALSE, TRUE, item) :
             item \in {-1, WINDOW_MODE_WINDOWED, WINDOW_MODE_BORDERLESS,
                       WINDOW_MODE_EXCLUSIVE}}
    \cup {MenuInput(0, TRUE, 0, 0),
          PlayInput(0, Mouse(900, 0), NoKeys, "up", FALSE, FALSE, TRUE),
          PlayInput(0, Mouse(0, 0), KeyW, "pressed", FALSE, FALSE, FALSE)}

\* the frames still followed
Followed == window.applyCalls < MaxApplies

NextWindow ==
    \/ \E inp \in WindowInputs : PollInput(inp)
    \/ Followed /\ PausedFrame
    \/ Followed /\ WalkingFrame(LookRegion)
    \/ Followed /\ NoclipFrame(LookRegion)

SpecWindow == Init /\ [][NextWindow]_vars

----------------------------------------------------------------------------
(* The push-out in single precision.  In this section a number is the     *)
(* float it stands for times 2^27, so that every float between 2^-3 and   *)
(* 2^4 in magnitude, and every sum or difference of two of them, is an    *)
(* integer; FloatRound rounds such a number to the nearest float, ties to *)
(* the even significand, as each float operation of the code does.        *)

FloatOne == 2 ^ 27

\* 0.3f, 1.8f and 0.1f
FloatRadius == 40265320

FloatHeight == 241591904

FloatTolerance == 13421773

\* the distance between neighbouring floats at the magnitude of n
FloatSpacing(n) ==
    IF Abs(n) < 2 ^ 24 THEN 1
    ELSE IF Abs(n) < 2 ^ 25 THEN 2
    ELSE IF Abs(n) < 2 ^ 26 THEN 4
    ELSE IF Abs(n) < 2 ^ 27 THEN 8
    ELSE IF Abs(n) < 2 ^ 28 THEN 16
    ELSE IF Abs(n) < 2 ^ 29 THEN 32
    ELSE 64

FloatRound(n) ==
    LET step == FloatSpacing(n)
        q    == n \div step
        rest == n - q * step
    IN  IF 2 * rest < step THEN q * step
        ELSE IF 2 * rest > step THEN (q + 1) * step
        ELSE IF q % 2 = 0 THEN q * step
        ELSE (q + 1) * step

FloatAdd(a, b) == FloatRound(a + b)

FloatSub(a, b) == FloatRound(a - b)

GetBoxBoundsFloat(box) ==
    [min |-> Vec(FloatSub(box.position.x, box.size.x \div 2),
                 FloatSub(box.position.y, box.size.y \div 2),
                 FloatSub(box.position.z, box.size.z \div 2)),
     max |-> Vec(FloatAdd(box.position.x, box.size.x \div 2),
                 FloatAdd(box.position.y, box.size.y \div 2),
                 FloatAdd(box.position.z, box.size.z \div 2))]

ShouldApplyHorizontalCollisionFloat(playerPos, radius, height, box) ==
    LET boxBounds == GetBoxBoundsFloat(box)
        feetY     == FloatSub(playerPos.y, height)
    IN  IF ~(/\ FloatAdd(playerPos.x, radius) > boxBounds.min.x
             /\ FloatSub(playerPos.x, radius) < boxBounds.max.x
             /\ FloatAdd(playerPos.z, radius) > boxBounds.min.z
             /\ FloatSub(playerPos.z, radius) < boxBounds.max.z) THEN FALSE
        ELSE IF feetY >= FloatSub(boxBounds.max.y, FloatTolerance) THEN FALSE
        ELSE IF playerPos.y < boxBounds.min.y THEN FALSE
        ELSE TRUE

ResolveCollisionFloat(playerPos, radius, height, box) ==
    LET boxBounds   == GetBoxBoundsFloat(box)
        overlapX1   == FloatSub(FloatAdd(playerPos.x, radius), boxBounds.min.x)
        overlapX2   == FloatSub(boxBounds.max.x, FloatSub(playerPos.x, radius))
        overlapZ1   == FloatSub(FloatAdd(playerPos.z, radius), boxBounds.min.z)
        overlapZ2   == FloatSub(boxBounds.max.z, FloatSub(playerPos.z, radius))
        minOverlapX == IF overlapX1 < overlapX2 THEN -overlapX1 ELSE overlapX2
        minOverlapZ == IF overlapZ1 < overlapZ2 THEN -overlapZ1 ELSE overlapZ2
    IN  IF Abs(minOverlapX) < Abs(minOverlapZ)
        THEN [playerPos EXCEPT !.x = FloatAdd(@, minOverlapX)]
        ELSE [playerPos EXCEPT !.z = FloatAdd(@, minOverlapZ)]

\* the centre cube of main() and a box of size (1, 2, 4) at (1, 1, 0)
CubeFloat ==
    [position |-> Vec(0, FloatOne, 0),
     size     |-> Vec(2 * FloatOne, 2 * FloatOne, 2 * FloatOne)]

SideFloat ==
    [position |-> Vec(FloatOne, FloatOne, 0),
     size     |-> Vec(FloatOne, 2 * FloatOne, 4 * FloatOne)]

\* how many positions are tried along each axis, and how far apart
FloatSteps == 6

FloatStride == 2654321

\* the floats nearest to evenly spread points from a (in 1/100) on
FloatsFrom(a) ==
    {FloatRound(a * (FloatOne \div 100) + i * FloatStride) : i \in 0..FloatSteps}

\* the player stands on the plane inside the widened footprint of the box,
\* where a walking frame finds it after a step or a push by another box
InitFloat ==
    \E scene \in {<<CubeFloat>>, <<SideFloat>>} :
    \E x \in FloatsFrom(-120) \cup FloatsFrom(75),
       z \in FloatsFrom(-110) \cup FloatsFrom(15) :
        /\ Start([InitialPlayer EXCEPT
                     !.position = Vec(x, FloatHeight, z),
                     !.height = FloatHeight, !.radius = FloatRadius], scene)
        /\ ShouldApplyHorizontalCollisionFloat(
               Vec(x, FloatHeight, z), FloatRadius, FloatHeight, scene[1])

\* the body of the push-out loop for a player that stands still
PushOutFloat ==
    /\ ShouldApplyHorizontalCollisionFloat(player.position, player.radius,
                                           player.height, colliders[1])
    /\ player' = [player EXCEPT !.position =
                     ResolveCollisionFloat(player.position, player.radius,
                                           player.height, colliders[1])]
    /\ UNCHANGED <<camera, colliders, settings, showSettingsMenu, input,
                   perfStats, window>>

NextFloat == PushOutFloat

SpecFloat == InitFloat /\ [][NextFloat]_vars

----------------------------------------------------------------------------
(* Properties *)

\* the height of the player's feet
Feet(p) == p.position.y - p.height

\* C1: after every look update, in walking and in noclip mode, for every
\* pointer delta and sensitivity, the pitch lies in [-89, 89], and the yaw is
\* the old yaw plus dx * sensitivity, never clamped.
C1_PitchClamped ==
    [][(Walks \/ Flies) =>
          /\ player'.pitch >= -PITCH_LIMIT
          /\ player'.pitch <= PITCH_LIMIT
          /\ player'.yaw = player.yaw
                              + Rnd(input.mdx * settings.mouseSensitivity, 100)]_vars

\* the pitch has been clamped in noclip mode after more than half a turn
C1_Witness ==
    /\ player.noclipMode
    /\ Abs(player.pitch) = PITCH_LIMIT
    /\ player.yaw >= 180

\* C2: after every noclip update, whatever the state and the inputs before,
\* the velocity is (0, 0, 0) and isGrounded is false.
C2_NoclipResets ==
    [][Flies => (player'.velocity = Vec(0, 0, 0) /\ ~player'.isGrounded)]_vars

\* the player has flown away from where walking left it
C2_Witness ==
    /\ player.noclipMode
    /\ player.position.y = InitialPlayer.position.y + 105
    /\ player.velocity = Vec(0, 0, 0)
    /\ ~player.isGrounded

\* C3: a walking player grounded on the plane with the jump key pressed this
\* frame ends the frame with velocity.y = JUMP_FORCE and isGrounded false,
\* for every frame time (also 0).
C3_JumpFrame ==
    [][(/\ Walks
        /\ ~player.noclipMode
        /\ player.isGrounded
        /\ player.velocity.y = 0
        /\ Feet(player) = GROUND_LEVEL
        /\ input.space = "pressed")
       => (player'.velocity.y = JUMP_FORCE /\ ~player'.isGrounded)]_vars

\* the jump of a frame of length 0: the feet are still on the plane
C3_Witness ==
    /\ ~player.noclipMode
    /\ player.velocity.y = JUMP_FORCE
    /\ ~player.isGrounded
    /\ Feet(player) = GROUND_LEVEL

\* C4: with no obstacles, no key held and no jump, every frame of an airborne
\* walking player either lowers velocity.y by exactly GRAVITY * dt, moves the
\* player by that velocity and leaves it airborne with the feet above the
\* plane, or is the landing frame: isGrounded, velocity.y = 0 and
\* position.y = height.
C4_FreeFall ==
    [][(Walks /\ ~player.isGrounded) =>
          LET vy == player.velocity.y - Rnd(GRAVITY * input.dt, 100)
          IN  IF player'.isGrounded
              THEN /\ player'.velocity.y = 0
                   /\ player'.position.y = GROUND_LEVEL + player.height
              ELSE /\ player'.velocity.y = vy
                   /\ player'.position.y = player.position.y + Rnd(vy * input.dt, 100)
                   /\ Feet(player') > GROUND_LEVEL]_vars

\* the player has landed on the plane of the empty scene
C4_Witness ==
    /\ colliders = << >>
    /\ player.isGrounded
    /\ player.velocity.y = 0
    /\ Feet(player) = GROUND_LEVEL

\* the walking player of this frame after look, movement intent, gravity and
\* jump, before the horizontal step
Intent ==
    The(Jumped(Weighed(Moved(
        Looked(ToggleNoclip(player, input), settings.mouseSensitivity, input),
        settings.moveSpeed, input), input), input))

\* the position the horizontal step proposes, before any push-out
Candidate == HorizontalStep(Intent, input.dt)

\* the candidate position after the push-outs and the vertical step, with
\* the player it belongs to
Landing == The(Lifted(Pushed({Intent}, colliders, input), input))

\* the frame tests the centre cube for a push-out and finds contact
CubeContact ==
    ShouldApplyHorizontalCollision(Candidate, player.radius, player.height,
                                   CenterCube)

\* C5: with the cube at (0,1,0) of size 2 alone in the scene and a walking
\* player approaching from x = +5 toward -x, every walking update in which
\* the player is in contact with the cube ends with
\* position.x >= boxMaxX + radius, for every step length.
C5_NeverPenetrates ==
    [][(Walks /\ CubeContact) =>
          player'.position.x >= GetBoxBounds(CenterCube).max.x + player.radius]_vars

\* the candidate position overlaps the footprint of the centre cube
OverCube == FootprintOverlap(Candidate, player.radius, GetBoxBounds(CenterCube))

\* the frame ends at the candidate position: no obstacle pushed the player
NoPushOut ==
    /\ player'.position.x = Candidate.x
    /\ player'.position.z = Candidate.z

\* C6 as stated: a walking player whose feet are at or above 1 - 0.1 and
\* whose footprint overlaps that of the cube at (0,1,0) of size 2 gets no
\* horizontal push-out from it.
C6_NoPushFromMidHeight ==
    [][(Walks /\ OverCube /\ Candidate.y - player.height >= 100 - 10) =>
          (~CubeContact /\ NoPushOut)]_vars

\* C6 amended: a walking player whose feet are at or above the top of the
\* cube minus 0.1, that is 2 - 0.1, and whose footprint overlaps that of the
\* cube gets no horizontal push-out from it.
C6_NoPushFromTop ==
    [][(Walks /\ OverCube
          /\ Candidate.y - player.height >= GetBoxBounds(CenterCube).max.y - 10) =>
          (~CubeContact /\ NoPushOut)]_vars

\* the player stands on the cube, having stepped onto it from the air
C6_Witness ==
    /\ player.isGrounded
    /\ Feet(player) = GetBoxBounds(CenterCube).max.y
    /\ FootprintOverlap(player.position, player.radius, GetBoxBounds(CenterCube))

\* the heights of the surfaces that count as ground for player p at newPos
QualifyingHeights(newPos, p, cols) ==
    (IF PlaneIsGround(newPos, p.height) THEN {GROUND_LEVEL} ELSE {})
    \cup {GetBoxBounds(cols[i]).max.y :
             i \in {j \in 1..Len(cols) :
                       BoxIsGround(newPos, p.radius, p.height,
                                   p.velocity.y, cols[j])}}

Max(S) == CHOOSE m \in S : \A n \in S : n <= m

\* C7: the height a walking frame snaps the feet to is the maximum over the
\* plane, if it qualifies, and the tops of all obstacles that qualify.
C7_HighestGround ==
    [][(Walks /\ player'.isGrounded) =>
          LET Q == QualifyingHeights(Landing.newPos, Landing.p, colliders)
          IN  Q # {} /\ Feet(player') = Max(Q)]_vars

\* the player has dropped off the cube onto the two steps and stands on the
\* higher one, its footprint over both
C7_Witness ==
    /\ player.isGrounded
    /\ Feet(player) = GetBoxBounds(HighStep).max.y
    /\ FootprintOverlap(player.position, player.radius, GetBoxBounds(HighStep))
    /\ FootprintOverlap(player.position, player.radius, GetBoxBounds(LowStep))

\* C8: every walking frame runs look, movement intent, gravity, jump,
\* horizontal collision, vertical integration and grounding in that order:
\* the horizontal velocity is built from the yaw this frame has set, the
\* push-outs are decided at the height before the vertical step, and the
\* grounding is decided at the height after it.
C8_StepOrder ==
    [][Walks =>
          LET moved  == WalkVelocity([player EXCEPT !.yaw = player'.yaw],
                                     settings.moveSpeed, input)
              vy     == Intent.velocity.y
              after  == [x |-> player'.position.x,
                         y |-> player.position.y + Rnd(vy * input.dt, 100),
                         z |-> player'.position.z]
              pushed == ResolveCollision(Candidate, player.radius,
                                         player.height, colliders[1])
              ground == \/ PlaneIsGround(after, player.height)
                        \/ \E i \in 1..Len(colliders) :
                               BoxIsGround(after, player.radius, player.height,
                                           vy, colliders[i])
          IN  /\ player'.velocity.x = moved.velocity.x
              /\ player'.velocity.z = moved.velocity.z
              /\ (\A i \in 1..Len(colliders) :
                     ~ShouldApplyHorizontalCollision(
                         Candidate, player.radius, player.height, colliders[i]))
                 => NoPushOut
              /\ (/\ ShouldApplyHorizontalCollision(
                        Candidate, player.radius, player.height, colliders[1])
                  /\ \A i \in 2..Len(colliders) :
                        ~ShouldApplyHorizontalCollision(
                            pushed, player.radius, player.height, colliders[i]))
                 => (/\ player'.position.x = pushed.x
                     /\ player'.position.z = pushed.z
                     /\ ~NoPushOut)
              /\ player'.isGrounded = (ground /\ vy <= 1)]_vars

\* the player has turned and set off in the same frame: the velocity points
\* along the new yaw
C8_Witness ==
    /\ player.yaw = CubePlayer.yaw + 90
    /\ player.velocity.x = 0
    /\ player.velocity.z = -InitialSettings.moveSpeed

\* C9: on the frame that switches from noclip to walking the vertical
\* velocity is 0 before the walking update, and the frame ends with
\* velocity.y equal to -GRAVITY * dt or 0.
C9_ExitNoclip ==
    [][(input.polled /\ ~MenuAfterEscape(input)
           /\ input.v /\ player.noclipMode)
       => /\ ToggleNoclip(player, input).velocity.y = 0
          /\ player'.velocity.y \in {0, -Rnd(GRAVITY * input.dt, 100)}]_vars

\* the first walking frame after leaving noclip in the air, one flight step
\* above the start
C9_Witness ==
    /\ ~player.noclipMode
    /\ ~player.isGrounded
    /\ player.velocity.y = -Rnd(GRAVITY * 10, 100)
    /\ player.position.y = InitialPlayer.position.y + 105 - 20

\* C11: across every sequence of walking updates, noclip updates and mode
\* toggles the player's height and radius keep the values main() gave them
\* (1.8 and 0.3), and the obstacle list stays the one main() built.
C11_BodyAndSceneFixed ==
    /\ player.height = InitialPlayer.height
    /\ player.radius = InitialPlayer.radius
    /\ colliders = MainScene

\* the player has walked forward, switched to noclip and flown up
C11_Witness ==
    /\ player.noclipMode
    /\ player.position.z = InitialPlayer.position.z - 70
    /\ player.position.y = InitialPlayer.position.y + 105

\* C12: after every PerformanceStats::Update the history holds the most
\* recent frame times in arrival order, the oldest one dropped once there
\* are more than 120; its size is min(number of updates, 120) and never
\* exceeds 120.
C12_HistoryBounded ==
    [][input.polled =>
          LET all  == Append(perfStats.frameTimeHistory, input.dt * 10)
              keep == IF perfStats'.frameCount < 120
                      THEN perfStats'.frameCount ELSE 120
          IN  /\ perfStats'.frameCount = perfStats.frameCount + 1
              /\ Len(perfStats'.frameTimeHistory) = keep
              /\ Len(perfStats'.frameTimeHistory) <= 120
              /\ perfStats'.frameTimeHistory
                   = SubSeq(all, Len(all) - keep + 1, Len(all))]_vars

\* the history is full and has dropped its oldest entries
C12_Witness ==
    /\ perfStats.frameCount > HISTORY_SIZE + 2
    /\ Len(perfStats.frameTimeHistory) = HISTORY_SIZE
    /\ perfStats.frameTimeHistory[HISTORY_SIZE] = perfStats.currentFrameTime

\* C13: gravity is gated by the isGrounded the frame before left: a walking
\* frame that begins airborne lowers velocity.y by exactly GRAVITY * dt
\* before integrating it; a frame that begins grounded applies no gravity,
\* so a jump leaves the full impulse, and a player who walks off a support
\* ends the frame airborne at the same height with velocity.y still 0.
C13_GravityGated ==
    [][Walks =>
          LET g == Rnd(GRAVITY * input.dt, 100)
          IN  /\ (~player.isGrounded /\ ~player'.isGrounded)
                 => /\ player'.velocity.y = player.velocity.y - g
                    /\ player'.position.y = player.position.y
                          + Rnd((player.velocity.y - g) * input.dt, 100)
              /\ (player.isGrounded /\ input.space = "pressed")
                 => player'.velocity.y = JUMP_FORCE
              /\ (player.isGrounded /\ input.space # "pressed"
                     /\ ~player'.isGrounded)
                 => /\ player'.velocity.y = 0
                    /\ player'.position.y = player.position.y]_vars

\* the player has just backed off the edge of the cube: airborne at the
\* height of its top, not yet falling
C13_Witness ==
    /\ ~player.isGrounded
    /\ player.velocity.y = 0
    /\ player.velocity.x = InitialSettings.moveSpeed
    /\ Feet(player) = GetBoxBounds(CenterCube).max.y
    /\ player.position.x = GetBoxBounds(CenterCube).max.x + player.radius

\* what the held keys ask for along the view and across it: -1, 0 or 1
Along(inp) == (IF inp.w THEN 1 ELSE 0) - (IF inp.s THEN 1 ELSE 0)

Across(inp) == (IF inp.d THEN 1 ELSE 0) - (IF inp.a THEN 1 ELSE 0)

\* C14: after a walking update velocity.x and velocity.z are what this
\* frame's keys, yaw and speed give, whatever the velocity before: zero with
\* no movement key or only opposing keys held, else of length speed (twice
\* the speed while sprinting) along the flat intent, and a push-out in the
\* same frame does not alter them.
C14_WalkVelocity ==
    [][Walks =>
          LET fresh == WalkVelocity([player EXCEPT !.yaw = player'.yaw,
                                                   !.velocity = Vec(0, 0, 0)],
                                    settings.moveSpeed, input).velocity
              speed == IF input.ctrl THEN 2 * settings.moveSpeed
                       ELSE settings.moveSpeed
              flat  == Vec(player'.velocity.x, 0, player'.velocity.z)
              fwd   == GetFlatForwardDirection(player')
          IN  /\ player'.velocity.x = fresh.x
              /\ player'.velocity.z = fresh.z
              /\ (Along(input) = 0 /\ Across(input) = 0)
                 => flat = Vec(0, 0, 0)
              /\ (Along(input) # 0 \/ Across(input) # 0)
                 => Abs(Vector3Length(flat) - speed) <= 2
              /\ (Across(input) = 0 /\ Along(input) # 0)
                 => /\ Abs(flat.x * 1000 - Along(input) * speed * fwd.x) <= 1000
                    /\ Abs(flat.z * 1000 - Along(input) * speed * fwd.z) <= 1000]_vars

\* the player sprints diagonally: both components are equal in size and
\* together of length twice the speed
C14_Witness ==
    /\ player.velocity.x # 0
    /\ Abs(player.velocity.x) = Abs(player.velocity.z)
    /\ Abs(Vector3Length(player.velocity) - 2 * InitialSettings.moveSpeed) <= 2

\* the candidate position as the obstacles before obstacle i have left it
Adjusted(i) ==
    ResolveHorizontal(Candidate, player.radius, player.height,
                      SubSeq(colliders, 1, i - 1), 1)

\* the footprints overlap, the feet are below the top of the box less 0.1
\* and the head is not below its bottom
Collides(pos, box) ==
    /\ pos.x + player.radius > box.position.x - box.size.x \div 2
    /\ pos.x - player.radius < box.position.x + box.size.x \div 2
    /\ pos.z + player.radius > box.position.z - box.size.z \div 2
    /\ pos.z - player.radius < box.position.z + box.size.z \div 2
    /\ pos.y - player.height < box.position.y + box.size.y \div 2 - 10
    /\ pos.y >= box.position.y - box.size.y \div 2

\* C15: an obstacle is treated as a horizontal collision for the candidate
\* position exactly when the footprints overlap, the feet are below the
\* obstacle's top - 0.1 and the head is not below the obstacle's bottom;
\* when that holds of no obstacle the frame ends at the candidate position.
C15_CollisionTest ==
    [][Walks =>
          /\ \A i \in 1..Len(colliders) :
                 ShouldApplyHorizontalCollision(Adjusted(i), player.radius,
                                                player.height, colliders[i])
                 <=> Collides(Adjusted(i), colliders[i])
          /\ (\A i \in 1..Len(colliders) : ~Collides(Adjusted(i), colliders[i]))
             => NoPushOut
          /\ Collides(Candidate, colliders[1]) => Adjusted(2) # Candidate]_vars

\* the player stands on the slab under the lintel, pushed by neither
C15_Witness ==
    /\ player.isGrounded
    /\ Feet(player) = GetBoxBounds(Slab).max.y
    /\ FootprintOverlap(player.position, player.radius, GetBoxBounds(Slab))
    /\ FootprintOverlap(player.position, player.radius, GetBoxBounds(Lintel))

\* the frame tests the block, first in the list, and finds contact
BlockContact ==
    ShouldApplyHorizontalCollision(Candidate, player.radius, player.height, Block)

\* how deep the candidate footprint is inside the block, from each side
Depths ==
    LET b == GetBoxBounds(Block)
    IN  [west  |-> (Candidate.x + player.radius) - b.min.x,
         east  |-> b.max.x - (Candidate.x - player.radius),
         north |-> (Candidate.z + player.radius) - b.min.z,
         south |-> b.max.z - (Candidate.z - player.radius)]

Least(S) == CHOOSE m \in S : \A n \in S : m <= n

\* C16: a push-out changes exactly one of position.x and position.z and
\* never position.y: the candidate moves along one axis only, by the
\* smallest of the overlaps, to where its footprint touches that face.
C16_OneAxisPush ==
    [][(Walks /\ BlockContact) =>
          LET b  == GetBoxBounds(Block)
              d  == Depths
              dx == player'.position.x - Candidate.x
              dz == player'.position.z - Candidate.z
          IN  /\ (dx # 0) # (dz # 0)
              /\ Abs(dx) + Abs(dz) = Least({d.west, d.east, d.north, d.south})
              /\ dx # 0 => player'.position.x
                              \in {b.min.x - player.radius, b.max.x + player.radius}
              /\ dz # 0 => player'.position.z
                              \in {b.min.z - player.radius, b.max.z + player.radius}
              /\ ResolveCollision(Candidate, player.radius, player.height,
                                  Block).y = Candidate.y
              /\ player'.position.y = Landing.newPos.y
                 \/ player'.isGrounded]_vars

\* the player rests against the east face of the block, which no step of
\* its own reaches from the start without a push
C16_Witness ==
    /\ player.position.x = GetBoxBounds(Block).max.x + player.radius
    /\ player.position.z < GetBoxBounds(Block).max.z
    /\ player.velocity.x < 0

PushOut(pos, box) ==
    IF ShouldApplyHorizontalCollision(pos, player.radius, player.height, box)
    THEN ResolveCollision(pos, player.radius, player.height, box)
    ELSE pos

Reverse(cols) == [i \in 1..Len(cols) |-> cols[Len(cols) + 1 - i]]

\* C18: the push-out runs obstacle by obstacle in list order, each obstacle
\* tested once against the candidate as the earlier ones left it; a frame
\* ends overlapping an obstacle only when a later obstacle pushed the
\* candidate back into it.
C18_ListOrder ==
    [][Walks =>
          LET first  == PushOut(Candidate, colliders[1])
              second == PushOut(first, colliders[2])
              third  == PushOut(second, colliders[3])
              ended  == [Candidate EXCEPT !.x = player'.position.x,
                                          !.z = player'.position.z]
          IN  /\ Len(colliders) = 3
              /\ player'.position.x = third.x
              /\ player'.position.z = third.z
              /\ Collides(ended, colliders[1]) => (second # first \/ third # second)
              /\ Collides(ended, colliders[2]) => third # second
              /\ ~Collides(ended, colliders[3])]_vars

\* the player has been pushed off the high step into the centre cube and
\* stands overlapping it; with the list reversed the same position would
\* resolve elsewhere
C18_Witness ==
    /\ ~player.noclipMode
    /\ player.position.x = GetBoxBounds(HighStep).max.x + player.radius
    /\ ShouldApplyHorizontalCollision(player.position, player.radius,
                                      player.height, CenterCube)
    /\ ResolveHorizontal(player.position, player.radius, player.height,
                         colliders, 1)
         # ResolveHorizontal(player.position, player.radius, player.height,
                             Reverse(colliders), 1)

\* the heights of the surfaces that qualify for a player at pos: the plane
\* when the feet are at most 0.05 above it, an obstacle when the footprints
\* overlap and the feet are between its top - 0.5 and its top + 0.05
Surfaces(pos) ==
    LET feet == pos.y - player.height
    IN  {y \in {GROUND_LEVEL} : feet <= 5}
        \cup {colliders[i].position.y + colliders[i].size.y \div 2 :
                 i \in {j \in 1..Len(colliders) :
                    LET b   == colliders[j]
                        top == b.position.y + b.size.y \div 2
                    IN  /\ pos.x + player.radius > b.position.x - b.size.x \div 2
                        /\ pos.x - player.radius < b.position.x + b.size.x \div 2
                        /\ pos.z + player.radius > b.position.z - b.size.z \div 2
                        /\ pos.z - player.radius < b.position.z + b.size.z \div 2
                        /\ feet >= top - 50
                        /\ feet <= top + 5}}

\* C19: after every walking frame grounded is true exactly when some surface
\* qualified and velocity.y <= 0.01 at grounding time; then position.y is
\* the surface height + height and velocity.y is 0; otherwise grounded is
\* false and position.y and velocity.y are as integrated.
C19_Grounding ==
    [][Walks =>
          LET S  == Surfaces(Landing.newPos)
              vy == Landing.p.velocity.y
          IN  /\ player'.isGrounded <=> (S # {} /\ vy <= 1)
              /\ player'.isGrounded =>
                    /\ player'.position.y - player.height \in S
                    /\ player'.velocity.y = 0
              /\ ~player'.isGrounded =>
                    /\ player'.position.y = Landing.newPos.y
                    /\ player'.velocity.y = vy
              /\ player'.position.x = Landing.newPos.x
              /\ player'.position.z = Landing.newPos.z]_vars

\* the player has come down onto the low step alone and stands on its top
C19_Witness ==
    /\ player.isGrounded
    /\ player.velocity.y = 0
    /\ Feet(player) = GetBoxBounds(LowStep).max.y
    /\ ~FootprintOverlap(player.position, player.radius, GetBoxBounds(HighStep))

\* 1000 for a held key, 0 for a released one
Held(b) == IF b THEN 1000 ELSE 0

\* C20: a noclip frame adds the move intent, normalized and scaled by the
\* noclip speed (x2.5 with Left Ctrl) and the frame time, to the position,
\* whatever the obstacles and the ground plane; with no movement key held
\* the position is unchanged.  The player faces -x with level pitch, so W
\* and S move along x and Space and Shift along y.
C20_NoclipMove ==
    [][Flies =>
          LET speed == Rnd(settings.moveSpeed * 3, 2)
              quick == IF input.ctrl THEN Rnd(speed * 5, 2) ELSE speed
              dist  == Rnd(quick * input.dt, 100)
              ax    == Held(input.s) - Held(input.w)
              ay    == Held(input.space # "up") - Held(input.shift)
              n     == Sqrt(ax * ax + ay * ay)
              nx    == IF n = 0 THEN 0 ELSE Rnd(ax * 1000, n)
              ny    == IF n = 0 THEN 0 ELSE Rnd(ay * 1000, n)
          IN  /\ player'.position.x = player.position.x + Rnd(nx * dist, 1000)
              /\ player'.position.y = player.position.y + Rnd(ny * dist, 1000)
              /\ player'.position.z = player.position.z
              /\ (ax = 0 /\ ay = 0) => player'.position = player.position]_vars

\* the flying player is at the centre of the cube with its feet under the
\* ground plane
C20_Witness ==
    /\ player.noclipMode
    /\ player.position.x = CenterCube.position.x
    /\ player.position.z = CenterCube.position.z
    /\ Feet(player) < GROUND_LEVEL

\* C21: in walking mode, with every frame taking some time, no jump and no
\* mode toggle, a player in the air is eventually grounded, whatever the
\* height it starts from and whether it comes down on the plane or the cube.
C21_EventuallyGrounded == (~player.isGrounded) ~> player.isGrounded

\* the player has come down through the cube's footprint onto the plane,
\* pushed out to the cube's face on the way
C21_Witness ==
    /\ player.isGrounded
    /\ Feet(player) = GROUND_LEVEL
    /\ player.position.x = GetBoxBounds(CenterCube).max.x + player.radius

\* C22: at the end of every frame the camera is at the player's position,
\* also in the frames spent in the settings menu, which do not recompute it.
C22_CameraFollows == camera.position = player.position

\* the menu is open over a player that has moved away from its start
C22_Witness ==
    /\ showSettingsMenu
    /\ ~input.polled
    /\ player.position # InitialPlayer.position
    /\ camera.position = player.position

\* settings.windowMode as the latch finds it, after the F11 key
Asked ==
    IF input.f11
    THEN IF settings.windowMode = WINDOW_MODE_WINDOWED
         THEN WINDOW_MODE_BORDERLESS ELSE WINDOW_MODE_WINDOWED
    ELSE settings.windowMode

\* the frame starts with a mode chosen in the dropdown and not yet applied
Pending == settings.windowMode # window.appliedWindowMode

\* the frame calls ApplyWindowMode once, for the given mode
AppliesOnce(mode) ==
    /\ window'.applyCalls = window.applyCalls + 1
    /\ window'.appliedWindowMode = mode
    /\ window'.fullscreen = (mode = WINDOW_MODE_EXCLUSIVE)
    /\ window'.undecorated = (mode = WINDOW_MODE_BORDERLESS)

\* the frame does not call ApplyWindowMode
AppliesNothing ==
    /\ window'.applyCalls = window.applyCalls
    /\ window'.fullscreen = window.fullscreen
    /\ window'.undecorated = window.undecorated

\* C23 as stated: ApplyWindowMode is called exactly when settings.windowMode
\* differs from appliedWindowMode at the test, after which the two are
\* equal; and a mode chosen in the dropdown is applied exactly once, in the
\* next frame.
C23_AppliedNextFrame ==
    [][input.polled =>
          /\ IF Asked # window.appliedWindowMode
             THEN AppliesOnce(Asked) ELSE AppliesNothing
          /\ window'.appliedWindowMode = Asked
          /\ Pending => AppliesOnce(settings.windowMode)]_vars

\* C23: ApplyWindowMode is called exactly when settings.windowMode differs
\* from appliedWindowMode at the test, after which the two are equal; and a
\* mode chosen in the dropdown is applied exactly once, in the next frame,
\* when F11 is not pressed in that frame.
C23_WindowModeLatch ==
    [][input.polled =>
          /\ IF Asked # window.appliedWindowMode
             THEN AppliesOnce(Asked) ELSE AppliesNothing
          /\ window'.appliedWindowMode = Asked
          /\ (Pending /\ ~input.f11) => AppliesOnce(settings.windowMode)]_vars

\* the window is in exclusive fullscreen, a mode only the dropdown offers
C23_Witness ==
    /\ window.fullscreen
    /\ window.appliedWindowMode = WINDOW_MODE_EXCLUSIVE
    /\ settings.windowMode = WINDOW_MODE_EXCLUSIVE
    /\ window.applyCalls = 1

\* C24: after every walking update the player's feet are not below the
\* ground plane, also when a noclip excursion left the player below the
\* plane before the switch back to walking.
C24_FeetAbovePlane ==
    [][Walks => player'.position.y >= GROUND_LEVEL + player'.height]_vars

\* a walking update is about to run on a player that flew below the plane
C24_Witness ==
    /\ Walks
    /\ player.noclipMode
    /\ Feet(player) < GROUND_LEVEL - 50

\* the feet are on the plane, or on the top of an obstacle whose footprint,
\* widened by the radius, holds the position
OnSurface ==
    \/ player.position.y - player.height = GROUND_LEVEL
    \/ \E i \in 1..Len(colliders) :
          LET b == colliders[i]
          IN  /\ player.position.y - player.height = b.position.y + b.size.y \div 2
              /\ player.position.x + player.radius > b.position.x - b.size.x \div 2
              /\ player.position.x - player.radius < b.position.x + b.size.x \div 2
              /\ player.position.z + player.radius > b.position.z - b.size.z \div 2
              /\ player.position.z - player.radius < b.position.z + b.size.z \div 2

\* C25: at the end of every frame, through walking, flying, jumps and mode
\* toggles, a grounded player has velocity.y = 0, is in walking mode and has
\* its feet on the plane or on the top of an obstacle under it.
C25_GroundedMeansResting ==
    player.isGrounded =>
        /\ player.velocity.y = 0
        /\ ~player.noclipMode
        /\ OnSurface

\* the player stands on the cube, where a jump and a step forward took it
C25_Witness ==
    /\ player.isGrounded
    /\ ~input.polled
    /\ Feet(player) = GetBoxBounds(CenterCube).max.y
    /\ FootprintOverlap(player.position, player.radius, GetBoxBounds(CenterCube))

\* C26: a jump key press in a frame that begins not grounded leaves
\* velocity.y as gravity and the grounding alone make it, and velocity.y
\* never exceeds the jump impulse.
C26_NoAirJump ==
    [][input.polled =>
          /\ player'.velocity.y <= JUMP_FORCE
          /\ (Walks /\ ~player.isGrounded /\ input.space = "pressed") =>
                player'.velocity.y =
                    IF player'.isGrounded THEN 0
                    ELSE player.velocity.y - Rnd(GRAVITY * input.dt, 100)]_vars

\* the jump key goes down while the player is falling
C26_Witness ==
    /\ Walks
    /\ ~player.isGrounded
    /\ input.space = "pressed"
    /\ player.velocity.y < 0
    /\ Feet(player) > 50

\* the menu is open when the frame comes to the game update
InMenu == IF input.esc THEN ~showSettingsMenu ELSE showSettingsMenu

\* the Resume button takes the click
Resumes == input.resume /\ ~window.windowModeDropdownOpen

\* C27: while the settings menu is open the game update is skipped: the
\* player's position, velocity, yaw, pitch, grounded flag and mode are
\* unchanged, and a V, jump or Tab press during the frame has no effect
\* then or later: the cursor and the menu are as Escape and Resume alone
\* leave them and no key press is kept for a later frame.
C27_MenuSkipsUpdate ==
    [][(input.polled /\ InMenu) =>
          /\ player' = player
          /\ camera' = camera
          /\ window'.cursorHidden =
                 IF Resumes THEN TRUE
                 ELSE IF input.esc THEN FALSE ELSE window.cursorHidden
          /\ showSettingsMenu' = ~Resumes
          /\ input' = Idle]_vars

\* the mode key, the jump key or Tab is pressed with the menu open
C27_Witness ==
    /\ input.polled
    /\ showSettingsMenu
    /\ ~input.esc
    /\ input.v \/ input.space = "pressed" \/ input.tab

\* C28: for a position that collides with an obstacle, ResolveCollision
\* leaves a position that touches the obstacle and no longer collides with
\* it, so that resolving a second time changes nothing.
C28_PushOutIdempotent ==
    [][ShouldApplyHorizontalCollisionFloat(player.position, player.radius,
                                           player.height, colliders[1])
       => /\ ~ShouldApplyHorizontalCollisionFloat(
                 player'.position, player.radius, player.height, colliders[1])
          /\ ResolveCollisionFloat(player'.position, player.radius,
                                   player.height, colliders[1])
                = player'.position]_vars

\* the frame is one of standing still: walking mode, no movement key, no
\* jump press, no mode toggle
StandsStill ==
    /\ Walks
    /\ ~input.v
    /\ ~input.w /\ ~input.s /\ ~input.a /\ ~input.d
    /\ input.space # "pressed"

\* C29: once a walking player is grounded, every frame with no jump press,
\* no movement key and no mode toggle leaves it grounded, at the same
\* position and with velocity.y = 0, for every frame time.
C29_GroundedStable ==
    [][(StandsStill /\ player.isGrounded) =>
          /\ player'.isGrounded
          /\ player'.position = player.position
          /\ player'.velocity.y = 0]_vars

\* the top of obstacle i
Top(i) == GetBoxBounds(colliders[i]).max.y

\* the footprint of p overlaps that of obstacle i
Over(p, i) == FootprintOverlap(p.position, p.radius, GetBoxBounds(colliders[i]))

\* C30: a walking player who starts a frame with feet at or above an
\* obstacle's top, inside its footprint, moving downward, never ends the
\* frame airborne inside the footprint with its feet below top - 0.5 and
\* above the obstacle's bottom, for every frame time and fall speed.
C30_NoFallIntoBox ==
    [][\A i \in 1..Len(colliders) :
          (/\ Walks
           /\ ~player.noclipMode
           /\ Over(player, i)
           /\ Feet(player) >= Top(i)
           /\ player.velocity.y < 0)
          => ~(/\ ~player'.isGrounded
               /\ Over(player', i)
               /\ Feet(player') < Top(i) - 50
               /\ Feet(player') > GetBoxBounds(colliders[i]).min.y)]_vars

====
